---- MODULE Spec2Model ----
(***************************************************************************)
(* Real-time task-progress synchronization client of story-flow:          *)
(* the useWebSocket composable (connection lifecycle, exponential-backoff  *)
(* reconnect, heartbeat, visibility handling, message dispatch) and the    *)
(* part of the project store it writes to (updateTask / updateScene).      *)
(***************************************************************************)
EXTENDS Integers, Sequences, FiniteSets, TLC

\* ---------------------------------------------------------------- bounds

\* WebSocket objects that may be alive (not yet closed) at the same time.
MaxSockets == 2

\* Timers of one kind the runtime may hold at the same time.
MaxTimers == 2

\* ElMessage.error notifications counted.
MaxNotified == 2

\* The largest attempt count getReconnectDelay is applied to, past the point
\* where Math.pow(2, n) stops being finite.
MaxAttemptArg == 1030

\* Tasks the store holds when its functions are called directly.
MaxTasks == 3

\* ------------------------------------------------------ program constants

MAX_RECONNECT_ATTEMPTS == 5
BASE_RECONNECT_DELAY == 1000
MAX_RECONNECT_DELAY == 30000

\* ------------------------------------------------------------------ state

VARIABLES
    rs,                 \* readyState of every WebSocket that is alive
    socket,             \* socket.value: NoSocket = null, ClosedSocket, or alive
    connected,          \* connected.value
    connecting,         \* connecting.value
    reconnectAttempts,  \* reconnectAttempts.value
    error,              \* error.value
    heartbeatTimer,     \* handle kept in heartbeatTimer, NoTimer = null
    reconnectTimer,     \* handle kept in reconnectTimer, NoTimer = null
    intervals,          \* setInterval timers alive in the runtime
    timeouts,           \* setTimeout timers pending in the runtime
    notified,           \* number of ElMessage.error notifications shown
    token,              \* storage.getToken() returns a token
    visible,            \* document.visibilityState === 'visible'
    tasks,              \* projectStore.tasks
    scenes,             \* projectStore.scenes
    lastMessage,        \* lastMessage.value, <<>> = null
    op,                 \* history: the handler that ran last
    pre,                \* history: values right before the last handler ran
    delays,             \* history: delays scheduled since attempts was last 0
    closeRun,           \* history: abnormal closes in a row since the last open
    notifiedRun,        \* history: notifications since reconnectAttempts was last set to 0
    terminalSeen,       \* history: task ids with a dispatched terminal event
    redelivered,        \* history: the last handler dispatched lastMessage again
    bypassed,           \* history: timers that were pending at a visibility reconnect
    sendResult,         \* history: what the last send() returned and handed over
    fetchPc,            \* where projectStore.fetchProject stands: the await it is at
    call,               \* history: the last direct call of a store function
    session,            \* user store token and user, the route, the navigation
                        \* the router is deciding and where userStore.logout stands
    http,               \* the axios instance: isRefreshing, pendingRequests, requests
    cache               \* useQueryCache: the entry of one key, fetcher calls in flight

vars == <<rs, socket, connected, connecting, reconnectAttempts, error,
          heartbeatTimer, reconnectTimer, intervals, timeouts, notified,
          token, visible, tasks, scenes, lastMessage,
          op, pre, delays, closeRun, notifiedRun, terminalSeen, redelivered,
          bypassed, sendResult, fetchPc, call, session, http, cache>>

\* A WebSocket that has closed fires no further event and ignores close(), so
\* the model forgets it: its slot reads "none" and is used again by a later
\* new WebSocket(), and a reference to it reads ClosedSocket.
SockIds == 1..MaxSockets

ReadyStates == {"none", "connecting", "open", "closing"}

NoSocket == 0

ClosedSocket == -1

\* Timer handles: a timer that has fired or was cleared is forgotten likewise,
\* and a handle that still names a fired timer reads FiredTimer.
TimerIds == 1..MaxTimers

NoTimer == 0

FiredTimer == -1

Min(a, b) == IF a < b THEN a ELSE b

\* The program state as one value, so that a handler is a function on it.
Cur ==
    [rs |-> rs, socket |-> socket, connected |-> connected,
     connecting |-> connecting, reconnectAttempts |-> reconnectAttempts,
     error |-> error, heartbeatTimer |-> heartbeatTimer,
     reconnectTimer |-> reconnectTimer, intervals |-> intervals,
     timeouts |-> timeouts, notified |-> notified,
     tasks |-> tasks, scenes |-> scenes, lastMessage |-> lastMessage,
     delays |-> delays, closeRun |-> closeRun, notifiedRun |-> notifiedRun,
     terminalSeen |-> terminalSeen]

Apply(n) ==
    /\ rs' = n.rs
    /\ socket' = n.socket
    /\ connected' = n.connected
    /\ connecting' = n.connecting
    /\ reconnectAttempts' = n.reconnectAttempts
    /\ error' = n.error
    /\ heartbeatTimer' = n.heartbeatTimer
    /\ reconnectTimer' = n.reconnectTimer
    /\ intervals' = n.intervals
    /\ timeouts' = n.timeouts
    /\ notified' = n.notified
    /\ tasks' = n.tasks
    /\ scenes' = n.scenes
    /\ lastMessage' = n.lastMessage
    /\ delays' = n.delays
    /\ closeRun' = n.closeRun
    /\ notifiedRun' = n.notifiedRun
    /\ terminalSeen' = n.terminalSeen

\* What the history variable pre keeps of a state.
Snapshot(st) ==
    [attempts |-> st.reconnectAttempts,
     timerPending |-> st.timeouts # {}]

\* The slot new WebSocket() takes: the first one without a live socket.
FreeSlot(r) ==
    IF \E i \in SockIds : r[i] = "none"
    THEN CHOOSE i \in SockIds : r[i] = "none" /\ \A j \in 1..(i - 1) : r[j] # "none"
    ELSE MaxSockets

\* The handle setTimeout or setInterval returns: one no live timer has.
FreshTimer(live) ==
    IF \E i \in TimerIds : i \notin live
    THEN CHOOSE i \in TimerIds : i \notin live /\ \A j \in 1..(i - 1) : j \in live
    ELSE MaxTimers

\* socket.value?.readyState === WebSocket.OPEN
SocketIsOpen(st) == st.socket \in SockIds /\ st.rs[st.socket] = "open"

\* ------------------------------------------------------------- the timers

\* The largest exponent of a finite IEEE double: 2^1023 is finite, 2^1024 is not.
DoubleMaxExponent == 1023

\* The double Infinity, above every finite value the model computes.
Infinity == 2147483647

\* Math.pow(2, n) in IEEE doubles: exact up to 2^1023, Infinity above.  Every
\* finite value from 2^20 on exceeds any delay cap, so the model holds the
\* finite powers from there on as 2^20.
RECURSIVE MathPow2(_)
MathPow2(n) ==
    IF n = 0 THEN 1
    ELSE IF n > DoubleMaxExponent THEN Infinity
    ELSE IF n >= 20 THEN 1048576
    ELSE 2 * MathPow2(n - 1)

\* a * b in doubles, a finite and positive.
Times(a, b) == IF b = Infinity THEN Infinity ELSE a * b

\* getReconnectDelay that lets an infinite product through.
getReconnectDelay_InfinityEscapes(st) ==
    LET delay == Times(BASE_RECONNECT_DELAY, MathPow2(st.reconnectAttempts))
    IN  IF delay = Infinity THEN delay ELSE Min(delay, MAX_RECONNECT_DELAY)

getReconnectDelay(st) ==
    LET delay == Times(BASE_RECONNECT_DELAY, MathPow2(st.reconnectAttempts))
    IN  Min(delay, MAX_RECONNECT_DELAY)

stopHeartbeat(st) ==
    IF st.heartbeatTimer # NoTimer
    THEN [st EXCEPT !.intervals = @ \ {st.heartbeatTimer}, !.heartbeatTimer = NoTimer]
    ELSE st

startHeartbeat(st) ==
    LET s1 == stopHeartbeat(st)
        h == FreshTimer(s1.intervals)
    IN  [s1 EXCEPT !.heartbeatTimer = h, !.intervals = @ \cup {h}]

cancelReconnect(st) ==
    IF st.reconnectTimer # NoTimer
    THEN [st EXCEPT !.timeouts = @ \ {st.reconnectTimer}, !.reconnectTimer = NoTimer]
    ELSE st

\* scheduleReconnect with the counter incremented before the delay is computed.
scheduleReconnect_IncrementFirst(st) ==
    LET s1 == [cancelReconnect(st) EXCEPT !.reconnectAttempts = @ + 1]
        delay == getReconnectDelay(s1)
        h == FreshTimer(s1.timeouts)
    IN  [s1 EXCEPT !.reconnectTimer = h,
                   !.timeouts = @ \cup {h},
                   !.delays = Append(@, delay)]

scheduleReconnect(st) ==
    LET s1 == cancelReconnect(st)
        delay == getReconnectDelay(s1)
        h == FreshTimer(s1.timeouts)
    IN  [s1 EXCEPT !.reconnectAttempts = @ + 1,
                   !.reconnectTimer = h,
                   !.timeouts = @ \cup {h},
                   !.delays = Append(@, delay)]

resetReconnect(st) ==
    [st EXCEPT !.reconnectAttempts = 0, !.error = "null",
               !.delays = <<>>, !.closeRun = 0, !.notifiedRun = 0]

\* ------------------------------------------------------------ the sockets

\* WebSocket.close(): a connecting or open socket starts closing, a closing or
\* closed one is left as it is.
wsClose(r, s) ==
    IF s \in SockIds /\ r[s] \in {"connecting", "open"}
    THEN [r EXCEPT ![s] = "closing"]
    ELSE r

\* connect() that marks the client connecting before it looks for the token.
connect_MarksConnectingFirst(st, tok) ==
    IF ~tok THEN [st EXCEPT !.error = "notLoggedIn", !.connecting = TRUE]
    ELSE IF SocketIsOpen(st) THEN st
    ELSE IF st.connecting THEN st
    ELSE LET ws == FreeSlot(st.rs)
         IN  [st EXCEPT !.connecting = TRUE,
                        !.error = "null",
                        !.rs[ws] = "connecting",
                        !.socket = ws]

\* connect(); tok is what storage.getToken() returns.  The URL is built from
\* window.location, so new WebSocket() does not throw and the catch branch
\* is not taken.
connect(st, tok) ==
    IF ~tok THEN [st EXCEPT !.error = "notLoggedIn"]
    ELSE IF SocketIsOpen(st) THEN st
    ELSE IF st.connecting THEN st
    ELSE LET ws == FreeSlot(st.rs)
         IN  [st EXCEPT !.connecting = TRUE,
                        !.error = "null",
                        !.rs[ws] = "connecting",
                        !.socket = ws]

\* connect() constructs a socket in this state.
ConnectOpens(st, tok) ==
    /\ tok
    /\ ~SocketIsOpen(st)
    /\ ~st.connecting

\* A slot is left for the socket connect() would construct.
CanConstruct(st, tok) ==
    ConnectOpens(st, tok) => \E i \in SockIds : st.rs[i] = "none"

\* ws.onopen that leaves reconnectAttempts as it is.
onopen_KeepsAttempts(st, s) ==
    startHeartbeat([st EXCEPT !.connected = TRUE, !.connecting = FALSE, !.error = "null"])

\* ws.onopen of socket s.
onopen(st, s) ==
    LET s1 == [st EXCEPT !.connected = TRUE,
                         !.connecting = FALSE,
                         !.reconnectAttempts = 0,
                         !.error = "null",
                         !.delays = <<>>,
                         !.closeRun = 0,
                         !.notifiedRun = 0]
    IN  startHeartbeat(s1)

\* ws.onclose comparing with <= where the code compares with <.
onclose_InclusiveCeiling(st, s, wasClean) ==
    LET s1 == stopHeartbeat([st EXCEPT !.connected = FALSE, !.connecting = FALSE])
    IN  IF ~wasClean /\ s1.reconnectAttempts <= MAX_RECONNECT_ATTEMPTS
        THEN scheduleReconnect(s1)
        ELSE IF s1.reconnectAttempts >= MAX_RECONNECT_ATTEMPTS
        THEN [s1 EXCEPT !.error = "fatal", !.notified = @ + 1, !.notifiedRun = @ + 1]
        ELSE s1

\* ws.onclose retrying every abnormal close, whatever the attempt count.
onclose_NoCeiling(st, s, wasClean) ==
    LET s1 == stopHeartbeat([st EXCEPT !.connected = FALSE, !.connecting = FALSE])
    IN  IF ~wasClean
        THEN scheduleReconnect(s1)
        ELSE IF s1.reconnectAttempts >= MAX_RECONNECT_ATTEMPTS
        THEN [s1 EXCEPT !.error = "fatal", !.notified = @ + 1, !.notifiedRun = @ + 1]
        ELSE s1

\* ws.onclose that leaves the connecting flag as it is.
onclose_KeepsConnecting(st, s, wasClean) ==
    LET s1 == stopHeartbeat([st EXCEPT !.connected = FALSE])
    IN  IF ~wasClean /\ s1.reconnectAttempts < MAX_RECONNECT_ATTEMPTS
        THEN scheduleReconnect(s1)
        ELSE IF s1.reconnectAttempts >= MAX_RECONNECT_ATTEMPTS
        THEN [s1 EXCEPT !.error = "fatal", !.notified = @ + 1, !.notifiedRun = @ + 1]
        ELSE s1

\* ws.onclose of socket s.
onclose(st, s, wasClean) ==
    LET s1 == stopHeartbeat([st EXCEPT !.connected = FALSE, !.connecting = FALSE])
    IN  IF ~wasClean /\ s1.reconnectAttempts < MAX_RECONNECT_ATTEMPTS
        THEN scheduleReconnect(s1)
        ELSE IF s1.reconnectAttempts >= MAX_RECONNECT_ATTEMPTS
        THEN [s1 EXCEPT !.error = "fatal", !.notified = @ + 1, !.notifiedRun = @ + 1]
        ELSE s1

\* ws.onerror of socket s; its ws.close() acts on a socket the runtime has
\* already closed.
onerror(st, s) ==
    [st EXCEPT !.error = "connectionError", !.rs = wsClose(@, s)]

\* The router is deciding no navigation.
NoNav == [to |-> "none", by |-> "none"]

\* A logged-in, initialized user on the project editor.
EditorSession ==
    [storeToken |-> TRUE, user |-> TRUE, route |-> "ProjectEditor",
     nav |-> NoNav, logoutPc |-> "idle"]

\* Requests the axios instance may have under way at the same time.
MaxRequests == 2

ReqIds == 1..MaxRequests

\* The axios instance with nothing under way and a refresh token in storage.
IdleHttp ==
    [isRefreshing |-> FALSE, pendingRequests |-> <<>>,
     req |-> [r \in ReqIds |-> "idle"], retry |-> [r \in ReqIds |-> FALSE],
     refreshToken |-> TRUE]

\* Fetcher calls of one cache key that may be in flight at the same time.
MaxFetches == 2

FetchIds == 1..MaxFetches

\* cache.get(key) === undefined
NoEntry == [data |-> "undefined", age |-> "none", promise |-> 0]

\* The module-level cache without the key, no fetcher call in flight, and
\* data.value of the consumer null.
EmptyCache == [entry |-> NoEntry, inflight |-> {}, data |-> "null"]

\* No store function has been called directly.
NoCall == [fn |-> "none"]

\* What send() has not returned yet.
NoSend == [returned |-> FALSE, handedTo |-> NoSocket]

\* send() that only tests that there is a socket, not its readyState.
send_IgnoresReadyState(st) ==
    IF st.socket \in SockIds
    THEN [returned |-> TRUE, handedTo |-> st.socket]
    ELSE [returned |-> FALSE, handedTo |-> NoSocket]

\* send(data): the value returned and the socket the payload was handed to.
send(st) ==
    IF SocketIsOpen(st)
    THEN [returned |-> TRUE, handedTo |-> st.socket]
    ELSE [returned |-> FALSE, handedTo |-> NoSocket]

\* disconnect() without its cancelReconnect() call.
disconnect_KeepsReconnectTimer(st) ==
    LET s1 == stopHeartbeat(st)
        s2 == IF s1.socket # NoSocket
              THEN [s1 EXCEPT !.rs = wsClose(@, s1.socket), !.socket = NoSocket]
              ELSE s1
    IN  [s2 EXCEPT !.connected = FALSE,
                   !.connecting = FALSE,
                   !.reconnectAttempts = 0,
                   !.delays = <<>>,
                   !.closeRun = 0,
                   !.notifiedRun = 0]

disconnect(st) ==
    LET s1 == stopHeartbeat(cancelReconnect(st))
        s2 == IF s1.socket # NoSocket
              THEN [s1 EXCEPT !.rs = wsClose(@, s1.socket), !.socket = NoSocket]
              ELSE s1
    IN  [s2 EXCEPT !.connected = FALSE,
                   !.connecting = FALSE,
                   !.reconnectAttempts = 0,
                   !.delays = <<>>,
                   !.closeRun = 0,
                   !.notifiedRun = 0]

\* The visibilitychange listener; vis is document.visibilityState === 'visible'.
onVisibilityChange(st, vis, tok) ==
    IF vis /\ ~st.connected /\ ~st.connecting
    THEN connect(resetReconnect(st), tok)
    ELSE st

\* -------------------------------------------------------------- the store

\* A JavaScript object is a function from its keys; a key it lacks reads
\* undefined.
Get(obj, k) == IF k \in DOMAIN obj THEN obj[k] ELSE "undefined"

\* { ...a, ...b }
Spread(a, b) ==
    [k \in DOMAIN a \cup DOMAIN b |-> IF k \in DOMAIN b THEN b[k] ELSE a[k]]

\* array.findIndex(x => x.id === id): the first match, 0 for none (-1 in the code).
FindIndex(arr, id) ==
    IF \E i \in 1..Len(arr) : Get(arr[i], "id") = id
    THEN CHOOSE i \in 1..Len(arr) :
             /\ Get(arr[i], "id") = id
             /\ \A j \in 1..(i - 1) : Get(arr[j], "id") # id
    ELSE 0

\* updateScene that replaces the scene by the update instead of merging.
updateScene_Replaces(scs, sceneId, updates) ==
    LET index == FindIndex(scs, sceneId)
    IN  IF index # 0 THEN [scs EXCEPT ![index] = updates] ELSE scs

\* updateScene that inserts the update when the store has no such scene.
updateScene_Inserts(scs, sceneId, updates) ==
    LET index == FindIndex(scs, sceneId)
    IN  IF index # 0
        THEN [scs EXCEPT ![index] = Spread(scs[index], updates)]
        ELSE Append(scs, updates)

\* projectStore.updateScene
updateScene(scs, sceneId, updates) ==
    LET index == FindIndex(scs, sceneId)
    IN  IF index # 0
        THEN [scs EXCEPT ![index] = Spread(scs[index], updates)]
        ELSE scs

\* updateTask that appends without looking for the id.
updateTask_AlwaysPush(tks, taskId, updates) == Append(tks, updates)

\* projectStore.updateTask
updateTask(tks, taskId, updates) ==
    LET index == FindIndex(tks, taskId)
    IN  IF index # 0
        THEN [tks EXCEPT ![index] = Spread(tks[index], updates)]
        ELSE Append(tks, updates)

\* addTask that pushes without looking for the id.
addTask_AlwaysPush(tks, task) == Append(tks, task)

\* projectStore.addTask
addTask(tks, task) ==
    IF \E i \in 1..Len(tks) : Get(tks[i], "id") = Get(task, "id")
    THEN tks
    ELSE Append(tks, task)

\* A value is truthy: here every value but undefined is a non-empty string.
Truthy(v) == v # "undefined"

\* message.result, message.result.scene_id
HasResult(m) == "result" \in DOMAIN m

ResultSceneId(m) == IF HasResult(m) THEN Get(m.result, "scene_id") ELSE "undefined"

\* handleMessage(message)
handleMessage(st, m) ==
    LET s1 == [st EXCEPT !.lastMessage = <<m>>]
        s2 == [s1 EXCEPT !.tasks =
                  updateTask(@, Get(m, "task_id"),
                             [id |-> Get(m, "task_id"),
                              type |-> Get(m, "type"),
                              status |-> Get(m, "status"),
                              progress |-> Get(m, "progress"),
                              progress_message |-> Get(m, "message"),
                              error_message |-> Get(m, "error")])]
        s3 == IF Get(m, "status") = "completed" /\ HasResult(m)
                  /\ Get(m, "type") = "image" /\ Truthy(ResultSceneId(m))
              THEN [s2 EXCEPT !.scenes =
                       updateScene(@, ResultSceneId(m),
                                   [image_url |-> Get(m.result, "image_url"),
                                    status |-> "completed"])]
              ELSE s2
        s4 == IF Get(m, "status") = "completed" /\ HasResult(m)
                  /\ Get(m, "type") = "video" /\ Truthy(ResultSceneId(m))
              THEN [s3 EXCEPT !.scenes =
                       updateScene(@, ResultSceneId(m),
                                   [video_url |-> Get(m.result, "video_url"),
                                    status |-> "completed"])]
              ELSE s3
    IN  IF Get(m, "status") = "failed" /\ Truthy(ResultSceneId(m))
        THEN [s4 EXCEPT !.scenes = updateScene(@, ResultSceneId(m), [status |-> "failed"])]
        ELSE s4

\* What arrives on the wire: text JSON.parse rejects, the JSON text null, the
\* pong envelope, or the JSON text of an object (a progress event or not).
NoEvent == [type |-> "none"]

RawBad == [kind |-> "bad", ev |-> NoEvent]

RawNull == [kind |-> "null", ev |-> NoEvent]

RawPong == [kind |-> "pong", ev |-> [type |-> "pong"]]

RawEvent(e) == [kind |-> "event", ev |-> e]

\* ws.onmessage: JSON.parse throws on bad text and reading .type of null
\* throws; the catch logs and returns.
onmessage(st, raw) ==
    IF raw.kind = "bad" THEN st
    ELSE IF raw.kind = "null" THEN st
    ELSE IF Get(raw.ev, "type") = "pong" THEN st
    ELSE handleMessage(st, raw.ev)

\* ------------------------------------------------------- the wire's events

TaskIds == {"t1", "t2"}

KindOf == [t1 |-> "image", t2 |-> "video"]

SceneOf == [t1 |-> "s1", t2 |-> "s2"]

TerminalStatuses == {"completed", "failed"}

NonTerminalStatuses == {"pending", "queued", "running"}

BaseEvent(t, status, progress) ==
    [task_id |-> t, type |-> KindOf[t], status |-> status,
     progress |-> progress, message |-> "m"]

\* result payloads of a completed event of task t: for its scene, for a scene
\* the store does not hold, and without a scene id.
ResultsOf(t) ==
    LET url == IF KindOf[t] = "image" THEN [image_url |-> "x"] ELSE [video_url |-> "v"]
    IN  {url @@ [scene_id |-> SceneOf[t]], url @@ [scene_id |-> "s9"], url}

EventsOf(t) ==
    {BaseEvent(t, "queued", 0),
     BaseEvent(t, "running", 40), BaseEvent(t, "running", 70),
     BaseEvent(t, "completed", 100),
     BaseEvent(t, "failed", 40) @@ [error |-> "e"],
     BaseEvent(t, "failed", 40) @@ [error |-> "e", result |-> [scene_id |-> SceneOf[t]]]}
    \cup {BaseEvent(t, "completed", 100) @@ [result |-> r] : r \in ResultsOf(t)}

Events == UNION {EventsOf(t) : t \in TaskIds}

\* A JSON object that is no progress event: it has none of the fields.
NotAnEvent == [foo |-> "bar"]

RawMsgs == {RawBad, RawNull, RawPong, RawEvent(NotAnEvent)} \cup {RawEvent(e) : e \in Events}

\* A task as tasksApi.list returns it.
RestTask(t, status, progress) ==
    [id |-> t, project_id |-> "p1", scene_id |-> SceneOf[t], type |-> KindOf[t],
     status |-> status, progress |-> progress, progress_message |-> "null",
     error_message |-> "null", created_at |-> "c"]

\* A scene as projectsApi.detail returns it.
RestScene(id) ==
    [id |-> id, project_id |-> "p1", text |-> "txt", image_url |-> "null",
     video_url |-> "null", status |-> "pending"]

\* ---------------------------------------------------------------- actions

Init ==
    /\ rs = [i \in SockIds |-> "none"]
    /\ socket = NoSocket
    /\ connected = FALSE
    /\ connecting = FALSE
    /\ reconnectAttempts = 0
    /\ error = "null"
    /\ heartbeatTimer = NoTimer
    /\ reconnectTimer = NoTimer
    /\ intervals = {}
    /\ timeouts = {}
    /\ notified = 0
    /\ token = TRUE
    /\ visible = TRUE
    /\ tasks = <<>>
    /\ scenes = <<>>
    /\ lastMessage = <<>>
    /\ op = "init"
    /\ delays = <<>>
    /\ closeRun = 0
    /\ notifiedRun = 0
    /\ terminalSeen = {}
    /\ redelivered = FALSE
    /\ bypassed = {}
    /\ sendResult = NoSend
    /\ fetchPc = "idle"
    /\ call = NoCall
    /\ session = EditorSession
    /\ http = IdleHttp
    /\ cache = EmptyCache
    /\ pre = Snapshot(Cur)

\* The handler named name ran, and it was no message event.  A timer stays
\* bypassed while it is pending; the visibility listener bypasses the timers
\* pending when it reconnects.
Ran(name) ==
    /\ op' = name
    /\ pre' = Snapshot(Cur)
    /\ redelivered' = FALSE
    /\ sendResult' = NoSend
    /\ UNCHANGED <<fetchPc, call, session,
                   http, cache>>
    /\ bypassed' =
          IF name = "VisibilityChange" /\ visible' /\ ~connected /\ ~connecting
          THEN timeouts'
          ELSE (bypassed \cap timeouts')
                   \ (IF Len(delays') = Len(delays) + 1 THEN {reconnectTimer'} ELSE {})

\* The runtime closed socket s: it is CLOSED from now on.
Closed(st, s) ==
    [st EXCEPT !.rs[s] = "none",
               !.socket = IF @ = s THEN ClosedSocket ELSE @]

\* The close event would show a notification and the count has room for it.
CanNotify(st) ==
    st.reconnectAttempts >= MAX_RECONNECT_ATTEMPTS => st.notified < MaxNotified

\* connect() called by onMounted or by the component's user.
Connect ==
    /\ CanConstruct(Cur, token)
    /\ Apply(connect(Cur, token))
    /\ Ran("Connect")
    /\ UNCHANGED <<token, visible>>

\* disconnect() called by onUnmounted or by the component's user.
Disconnect ==
    /\ Apply(disconnect(Cur))
    /\ Ran("Disconnect")
    /\ UNCHANGED <<token, visible>>

\* The transport opened socket s: its open event.
SockOpen(s) ==
    /\ rs[s] = "connecting"
    /\ Apply(onopen([Cur EXCEPT !.rs[s] = "open"], s))
    /\ Ran("SockOpen")
    /\ UNCHANGED <<token, visible>>

\* Socket s closed without a completed closing handshake (network failure,
\* refused or aborted connection): an error event when the connection failed,
\* then its close event with wasClean = false.
SockCloseAbnormal(s, withError) ==
    /\ rs[s] \in {"connecting", "open", "closing"}
    /\ CanNotify(Cur)
    /\ LET s0 == [Closed(Cur, s) EXCEPT !.closeRun = Min(@ + 1, MAX_RECONNECT_ATTEMPTS + 1)]
           s1 == IF withError THEN onerror(s0, s) ELSE s0
       IN  Apply(onclose(s1, s, FALSE))
    /\ Ran("SockCloseAbnormal")
    /\ UNCHANGED <<token, visible>>

\* Socket s closed with a completed closing handshake, started by the server
\* (s open) or by disconnect() (s closing): its close event, wasClean = true.
SockCloseClean(s) ==
    /\ rs[s] \in {"open", "closing"}
    /\ CanNotify(Cur)
    /\ Apply(onclose(Closed(Cur, s), s, TRUE))
    /\ Ran("SockCloseClean")
    /\ UNCHANGED <<token, visible>>

\* The pending reconnect timer t fires: its callback calls connect().
ReconnectTimerFire(t) ==
    /\ t \in timeouts
    /\ LET s0 == [Cur EXCEPT !.timeouts = @ \ {t},
                              !.reconnectTimer = IF @ = t THEN FiredTimer ELSE @]
       IN  /\ CanConstruct(s0, token)
           /\ Apply(connect(s0, token))
    /\ Ran("ReconnectTimerFire")
    /\ UNCHANGED <<token, visible>>

\* The page is hidden or shown: the visibilitychange listener runs.
VisibilityChange ==
    /\ visible' = ~visible
    /\ (visible' /\ ~connected /\ ~connecting) => CanConstruct(Cur, token)
    /\ Apply(onVisibilityChange(Cur, visible', token))
    /\ Ran("VisibilityChange")
    /\ UNCHANGED token

\* The user logs in or out, or the stored token expires: storage changes.
TokenChange ==
    /\ token' = ~token
    /\ UNCHANGED <<rs, socket, connected, connecting, reconnectAttempts, error,
                   heartbeatTimer, reconnectTimer, intervals, timeouts, notified,
                   visible, tasks, scenes, lastMessage, delays, closeRun, notifiedRun,
                   terminalSeen>>
    /\ Ran("TokenChange")

\* send(data) called by the component's user.
Send ==
    /\ sendResult' = send(Cur)
    /\ op' = "Send"
    /\ pre' = Snapshot(Cur)
    /\ UNCHANGED <<rs, socket, connected, connecting, reconnectAttempts, error,
                   heartbeatTimer, reconnectTimer, intervals, timeouts, notified,
                   token, visible, tasks, scenes, lastMessage, delays, closeRun,
                   notifiedRun, terminalSeen, redelivered, bypassed, fetchPc, call,
                   session, http, cache>>

\* Socket s received a message: its message event.
OnMessage(s, raw) ==
    /\ rs[s] = "open"
    /\ Apply([onmessage(Cur, raw) EXCEPT !.terminalSeen =
                 IF raw.kind = "event" /\ Get(raw.ev, "status") \in TerminalStatuses
                 THEN @ \cup {Get(raw.ev, "task_id")} ELSE @])
    /\ op' = "OnMessage"
    /\ pre' = Snapshot(Cur)
    /\ redelivered' = (raw.kind = "event" /\ lastMessage = <<raw.ev>>)
    /\ UNCHANGED <<token, visible, bypassed, sendResult, fetchPc, call, session,
                   http, cache>>

Next ==
    \/ Connect
    \/ Disconnect
    \/ \E s \in SockIds : SockOpen(s)
    \/ \E s \in SockIds, e \in BOOLEAN : SockCloseAbnormal(s, e)
    \/ \E s \in SockIds : SockCloseClean(s)
    \/ \E t \in TimerIds : ReconnectTimerFire(t)
    \/ VisibilityChange
    \/ TokenChange

Spec == Init /\ [][Next]_vars

\* The client while the token stays in storage and disconnect() is not
\* called; a setTimeout callback that is pending runs in the end.
LiveNext ==
    \/ Connect
    \/ \E s \in SockIds : SockOpen(s)
    \/ \E s \in SockIds, e \in BOOLEAN : SockCloseAbnormal(s, e)
    \/ \E s \in SockIds : SockCloseClean(s)
    \/ \E t \in TimerIds : ReconnectTimerFire(t)
    \/ VisibilityChange

LiveSpec ==
    /\ Init
    /\ [][LiveNext]_vars
    /\ WF_vars(\E t \in TimerIds : ReconnectTimerFire(t))

\* The client with its send() in use.
SendNext ==
    \/ Next
    \/ Send

SendSpec == Init /\ [][SendNext]_vars

\* The editor is mounted, its project and tasks are fetched and the socket
\* is open: the states in which progress events arrive.
StoreInit ==
    /\ rs = [i \in SockIds |-> IF i = 1 THEN "open" ELSE "none"]
    /\ socket = 1
    /\ connected = TRUE
    /\ connecting = FALSE
    /\ reconnectAttempts = 0
    /\ error = "null"
    /\ heartbeatTimer = 1
    /\ reconnectTimer = NoTimer
    /\ intervals = {1}
    /\ timeouts = {}
    /\ notified = 0
    /\ token = TRUE
    /\ visible = TRUE
    /\ tasks \in {<<>>,
                  <<RestTask("t1", "running", 40)>>,
                  <<RestTask("t2", "completed", 100), RestTask("t1", "pending", 0)>>}
    /\ scenes \in {<<>>, <<RestScene("s1"), RestScene("s2")>>}
    /\ lastMessage = <<>>
    /\ op = "SockOpen"
    /\ delays = <<>>
    /\ closeRun = 0
    /\ notifiedRun = 0
    /\ terminalSeen = {}
    /\ redelivered = FALSE
    /\ bypassed = {}
    /\ sendResult = NoSend
    /\ fetchPc = "idle"
    /\ call = NoCall
    /\ session = EditorSession
    /\ http = IdleHttp
    /\ cache = EmptyCache
    /\ pre = Snapshot(Cur)

\* getReconnectDelay() called on its own, at any attempt count.
GetReconnectDelay ==
    /\ op = "init"
    /\ delays' = <<getReconnectDelay(Cur)>>
    /\ op' = "getReconnectDelay"
    /\ pre' = Snapshot(Cur)
    /\ UNCHANGED <<rs, socket, connected, connecting, reconnectAttempts, error,
                   heartbeatTimer, reconnectTimer, intervals, timeouts, notified,
                   token, visible, tasks, scenes, lastMessage, closeRun,
                   notifiedRun, terminalSeen, redelivered, bypassed, sendResult,
                   fetchPc, call, session,
                   http, cache>>

BackoffInit ==
    /\ rs = [i \in SockIds |-> "none"]
    /\ socket = NoSocket
    /\ connected = FALSE
    /\ connecting = FALSE
    /\ reconnectAttempts \in 0..MaxAttemptArg
    /\ error = "null"
    /\ heartbeatTimer = NoTimer
    /\ reconnectTimer = NoTimer
    /\ intervals = {}
    /\ timeouts = {}
    /\ notified = 0
    /\ token = TRUE
    /\ visible = TRUE
    /\ tasks = <<>>
    /\ scenes = <<>>
    /\ lastMessage = <<>>
    /\ op = "init"
    /\ delays = <<>>
    /\ closeRun = 0
    /\ notifiedRun = 0
    /\ terminalSeen = {}
    /\ redelivered = FALSE
    /\ bypassed = {}
    /\ sendResult = NoSend
    /\ fetchPc = "idle"
    /\ call = NoCall
    /\ session = EditorSession
    /\ http = IdleHttp
    /\ cache = EmptyCache
    /\ pre = Snapshot(Cur)

BackoffNext == GetReconnectDelay

BackoffSpec == BackoffInit /\ [][BackoffNext]_vars

\* A step of fetchProject named name: nothing of the socket client changes.
FetchRan(name) ==
    /\ op' = name
    /\ pre' = Snapshot(Cur)
    /\ redelivered' = FALSE
    /\ UNCHANGED <<rs, socket, connected, connecting, reconnectAttempts, error,
                   heartbeatTimer, reconnectTimer, intervals, timeouts, notified,
                   token, visible, lastMessage, delays, closeRun, notifiedRun,
                   terminalSeen, bypassed, sendResult, call, session,
                   http, cache>>

\* What projectsApi.detail may carry as data.scenes.
DetailResponses == {<<>>, <<RestScene("s1"), RestScene("s2")>>}

\* What tasksApi.list may resolve to.
ListResponses ==
    {<<>>,
     <<RestTask("t1", "running", 40)>>,
     <<RestTask("t1", "completed", 100)>>,
     <<RestTask("t2", "completed", 100), RestTask("t1", "pending", 0)>>}

\* projectsApi.detail resolved: fetchProject stores the scenes and calls
\* fetchTasks, which awaits tasksApi.list.
DetailResolves(scs) ==
    /\ fetchPc = "detail"
    /\ scenes' = scs
    /\ fetchPc' = "list"
    /\ UNCHANGED tasks
    /\ FetchRan("DetailResolves")

\* projectsApi.detail rejected: fetchProject throws, fetchTasks is not called.
DetailRejects ==
    /\ fetchPc = "detail"
    /\ fetchPc' = "failed"
    /\ UNCHANGED <<tasks, scenes>>
    /\ FetchRan("DetailRejects")

\* tasksApi.list resolved: fetchTasks assigns the list to tasks.
ListResolves(list) ==
    /\ fetchPc = "list"
    /\ tasks' = list
    /\ fetchPc' = "done"
    /\ UNCHANGED scenes
    /\ FetchRan("ListResolves")

\* tasksApi.list rejected: fetchTasks logs and leaves tasks.
ListRejects ==
    /\ fetchPc = "list"
    /\ fetchPc' = "done"
    /\ UNCHANGED <<tasks, scenes>>
    /\ FetchRan("ListRejects")

\* The editor has just been mounted: the store is cleared, fetchProject awaits
\* projectsApi.detail and the socket is already open.
MountInit ==
    /\ rs = [i \in SockIds |-> IF i = 1 THEN "open" ELSE "none"]
    /\ socket = 1
    /\ connected = TRUE
    /\ connecting = FALSE
    /\ reconnectAttempts = 0
    /\ error = "null"
    /\ heartbeatTimer = 1
    /\ reconnectTimer = NoTimer
    /\ intervals = {1}
    /\ timeouts = {}
    /\ notified = 0
    /\ token = TRUE
    /\ visible = TRUE
    /\ tasks = <<>>
    /\ scenes = <<>>
    /\ lastMessage = <<>>
    /\ op = "SockOpen"
    /\ delays = <<>>
    /\ closeRun = 0
    /\ notifiedRun = 0
    /\ terminalSeen = {}
    /\ redelivered = FALSE
    /\ bypassed = {}
    /\ sendResult = NoSend
    /\ fetchPc = "detail"
    /\ call = NoCall
    /\ session = EditorSession
    /\ http = IdleHttp
    /\ cache = EmptyCache
    /\ pre = Snapshot(Cur)

\* The messages that arrive while fetchProject runs: the progress events of
\* one task.
MountMsgs == {RawEvent(e) : e \in EventsOf("t1")}

MountNext ==
    \/ \E s \in SockIds, raw \in MountMsgs : OnMessage(s, raw)
    \/ \E scs \in DetailResponses : DetailResolves(scs)
    \/ DetailRejects
    \/ \E list \in ListResponses : ListResolves(list)
    \/ ListRejects

MountSpec == MountInit /\ [][MountNext]_vars

\* The updates updateTask is called with: Partial<Task>, with or without id.
UpdateArgs ==
    {[id |-> t, status |-> "running", progress |-> 40] : t \in TaskIds}
        \cup {[status |-> "completed", progress |-> 100]}

\* The tasks addTask is called with.
AddArgs == {RestTask(t, "pending", 0) : t \in TaskIds}

\* A direct call of a store function, recorded as c: only tasks changes.
StoreCalled(name, c) ==
    /\ op' = name
    /\ call' = c
    /\ pre' = Snapshot(Cur)
    /\ redelivered' = FALSE
    /\ UNCHANGED <<rs, socket, connected, connecting, reconnectAttempts, error,
                   heartbeatTimer, reconnectTimer, intervals, timeouts, notified,
                   token, visible, scenes, lastMessage, delays, closeRun,
                   notifiedRun, terminalSeen, bypassed, sendResult, fetchPc,
                   session, http, cache>>

\* projectStore.updateTask(taskId, updates) called.
UpdateTask(taskId, updates) ==
    /\ Len(updateTask(tasks, taskId, updates)) <= MaxTasks
    /\ tasks' = updateTask(tasks, taskId, updates)
    /\ StoreCalled("UpdateTask", [fn |-> "updateTask", taskId |-> taskId, updates |-> updates])

\* projectStore.addTask(task) called.
AddTask(task) ==
    /\ Len(addTask(tasks, task)) <= MaxTasks
    /\ tasks' = addTask(tasks, task)
    /\ StoreCalled("AddTask", [fn |-> "addTask", task |-> task])

\* The store with a task list of distinct ids, its functions called directly.
TaskInit ==
    /\ rs = [i \in SockIds |-> "none"]
    /\ socket = NoSocket
    /\ connected = FALSE
    /\ connecting = FALSE
    /\ reconnectAttempts = 0
    /\ error = "null"
    /\ heartbeatTimer = NoTimer
    /\ reconnectTimer = NoTimer
    /\ intervals = {}
    /\ timeouts = {}
    /\ notified = 0
    /\ token = TRUE
    /\ visible = TRUE
    /\ tasks \in {<<>>,
                  <<RestTask("t1", "running", 40)>>,
                  <<RestTask("t2", "completed", 100), RestTask("t1", "pending", 0)>>}
    /\ scenes = <<>>
    /\ lastMessage = <<>>
    /\ op = "init"
    /\ delays = <<>>
    /\ closeRun = 0
    /\ notifiedRun = 0
    /\ terminalSeen = {}
    /\ redelivered = FALSE
    /\ bypassed = {}
    /\ sendResult = NoSend
    /\ fetchPc = "idle"
    /\ call = NoCall
    /\ session = EditorSession
    /\ http = IdleHttp
    /\ cache = EmptyCache
    /\ pre = Snapshot(Cur)

TaskNext ==
    \/ \E taskId \in TaskIds, updates \in UpdateArgs : UpdateTask(taskId, updates)
    \/ \E task \in AddArgs : AddTask(task)

TaskSpec == TaskInit /\ [][TaskNext]_vars

\* ------------------------------------------------- the session and router

\* The routes navigated to, and their meta fields.
Routes == {"Dashboard", "Projects", "Pricing", "Login"}

RequiresAuth(r) == r \in {"Dashboard", "Projects", "ProjectEditor"}

GuestOnly(r) == r = "Login"

\* checkAuth(to) for an initialized user store (with a token in storage the
\* store was initialized by the first navigation): "ok" for true, else the
\* name of the route it redirects to.  No route modelled restricts roles.
checkAuth(sess, to) ==
    IF RequiresAuth(to) /\ ~sess.storeToken THEN "Login"
    ELSE IF GuestOnly(to) /\ sess.storeToken THEN "Dashboard"
    ELSE "ok"

\* A step of the session named name: socket client and project fetch stay.
SessionRan(name) ==
    /\ op' = name
    /\ pre' = Snapshot(Cur)
    /\ redelivered' = FALSE
    /\ UNCHANGED <<rs, socket, connected, connecting, reconnectAttempts, error,
                   heartbeatTimer, reconnectTimer, intervals, timeouts, notified,
                   visible, lastMessage, delays, closeRun, notifiedRun,
                   terminalSeen, bypassed, sendResult, fetchPc, call, http, cache>>

\* useAuth.logout(): userStore.logout() runs up to its await of
\* authApi.logout() and is not awaited; projectStore.reset(); then
\* router.push('/login').
Logout ==
    /\ session.nav = NoNav
    /\ session.logoutPc = "idle"
    /\ session.storeToken
    /\ session' = [session EXCEPT !.logoutPc = "api",
                                  !.nav = [to |-> "Login", by |-> "logout"]]
    /\ tasks' = <<>>
    /\ scenes' = <<>>
    /\ UNCHANGED token
    /\ SessionRan("Logout")

\* authApi.logout() settled (it swallows a rejection): userStore.logout
\* resumes and calls clearAuth().
LogoutApiSettles ==
    /\ session.logoutPc = "api"
    /\ session' = [session EXCEPT !.logoutPc = "idle",
                                  !.user = FALSE,
                                  !.storeToken = FALSE]
    /\ token' = FALSE
    /\ UNCHANGED <<tasks, scenes>>
    /\ SessionRan("LogoutApiSettles")

\* router.beforeEach for the navigation being decided: next() confirms it,
\* next(authResult) replaces it by a navigation to the redirect.
GuardRuns ==
    /\ session.nav # NoNav
    /\ LET r == checkAuth(session, session.nav.to)
       IN  session' = IF r = "ok"
                      THEN [session EXCEPT !.route = session.nav.to, !.nav = NoNav]
                      ELSE [session EXCEPT !.nav.to = r]
    /\ UNCHANGED <<token, tasks, scenes>>
    /\ SessionRan("GuardRuns")

\* The user follows a link: router.push(to).
Navigate(to) ==
    /\ session.nav = NoNav
    /\ session' = [session EXCEPT !.nav = [to |-> to, by |-> "user"]]
    /\ UNCHANGED <<token, tasks, scenes>>
    /\ SessionRan("Navigate")

\* useAuth.login() on the login page after userStore.doLogin resolved: token
\* and user are stored, then router.push('/dashboard').
LoginSucceeds ==
    /\ session.nav = NoNav
    /\ session.route = "Login"
    /\ session.logoutPc = "idle"
    /\ ~session.storeToken
    /\ session' = [session EXCEPT !.storeToken = TRUE,
                                  !.user = TRUE,
                                  !.nav = [to |-> "Dashboard", by |-> "login"]]
    /\ token' = TRUE
    /\ UNCHANGED <<tasks, scenes>>
    /\ SessionRan("LoginSucceeds")

\* A logged-in user on a page that offers logout, the store holding the
\* project last fetched.
SessionInit ==
    /\ rs = [i \in SockIds |-> "none"]
    /\ socket = NoSocket
    /\ connected = FALSE
    /\ connecting = FALSE
    /\ reconnectAttempts = 0
    /\ error = "null"
    /\ heartbeatTimer = NoTimer
    /\ reconnectTimer = NoTimer
    /\ intervals = {}
    /\ timeouts = {}
    /\ notified = 0
    /\ token = TRUE
    /\ visible = TRUE
    /\ tasks \in {<<>>, <<RestTask("t1", "running", 40)>>}
    /\ scenes \in {<<>>, <<RestScene("s1"), RestScene("s2")>>}
    /\ lastMessage = <<>>
    /\ op = "init"
    /\ delays = <<>>
    /\ closeRun = 0
    /\ notifiedRun = 0
    /\ terminalSeen = {}
    /\ redelivered = FALSE
    /\ bypassed = {}
    /\ sendResult = NoSend
    /\ fetchPc = "idle"
    /\ call = NoCall
    /\ session \in {[EditorSession EXCEPT !.route = r] : r \in {"Dashboard", "Projects", "Pricing"}}
    /\ http = IdleHttp
    /\ cache = EmptyCache
    /\ pre = Snapshot(Cur)

SessionNext ==
    \/ Logout
    \/ LogoutApiSettles
    \/ GuardRuns
    \/ \E to \in Routes : Navigate(to)
    \/ LoginSucceeds

SessionSpec == SessionInit /\ [][SessionNext]_vars

\* ------------------------------------------------------ the axios instance

\* A step of the axios instance named name.
HttpRan(name) ==
    /\ op' = name
    /\ pre' = Snapshot(Cur)
    /\ redelivered' = FALSE
    /\ UNCHANGED <<rs, socket, connected, connecting, reconnectAttempts, error,
                   heartbeatTimer, reconnectTimer, intervals, timeouts, notified,
                   visible, tasks, scenes, lastMessage, delays, closeRun,
                   notifiedRun, terminalSeen, bypassed, sendResult, fetchPc, call,
                   cache>>

\* The refresh failed or could not start: storage.clear() and
\* router.push('/login'), the request that started it is rejected.
refreshFailed(h, r) ==
    [h EXCEPT !.req[r] = "rejected", !.isRefreshing = FALSE, !.refreshToken = FALSE]

\* A request is issued through the instance, with a fresh config.
Request(r) ==
    /\ http.req[r] \in {"idle", "resolved", "rejected"}
    /\ http' = [http EXCEPT !.req[r] = "sent", !.retry[r] = FALSE]
    /\ UNCHANGED <<token, session>>
    /\ HttpRan("Request")

\* Request r got a response that is no error.
Respond2xx(r) ==
    /\ http.req[r] = "sent"
    /\ http' = [http EXCEPT !.req[r] = "resolved"]
    /\ UNCHANGED <<token, session>>
    /\ HttpRan("Respond2xx")

\* Request r failed with something else than a first 401: it is rejected.
RespondError(r) ==
    /\ http.req[r] = "sent"
    /\ http' = [http EXCEPT !.req[r] = "rejected"]
    /\ UNCHANGED <<token, session>>
    /\ HttpRan("RespondError")

\* Request r got a 401: the error interceptor.  A retried request is
\* rejected; during a refresh the request is queued; otherwise it starts the
\* refresh, which fails at once without a refresh token.
Respond401(r) ==
    /\ http.req[r] = "sent"
    /\ IF http.retry[r]
       THEN /\ http' = [http EXCEPT !.req[r] = "rejected"]
            /\ UNCHANGED <<token, session>>
       ELSE IF http.isRefreshing
       THEN /\ http' = [http EXCEPT !.req[r] = "queued",
                                    !.pendingRequests = Append(@, r)]
            /\ UNCHANGED <<token, session>>
       ELSE IF ~http.refreshToken
       THEN /\ http' = refreshFailed([http EXCEPT !.retry[r] = TRUE], r)
            /\ token' = FALSE
            /\ session' = [session EXCEPT !.nav = [to |-> "Login", by |-> "refresh"]]
       ELSE /\ http' = [http EXCEPT !.retry[r] = TRUE,
                                    !.isRefreshing = TRUE,
                                    !.req[r] = "refreshing"]
            /\ UNCHANGED <<token, session>>
    /\ HttpRan("Respond401")

\* POST /auth/refresh resolved for request r: the tokens are stored,
\* onTokenRefreshed re-sends every queued request and empties the queue, r
\* is re-sent, isRefreshing is cleared.
RefreshSucceeds(r) ==
    /\ http.req[r] = "refreshing"
    /\ http' = [http EXCEPT
                   !.req = [q \in ReqIds |->
                               IF q = r \/ \E i \in 1..Len(http.pendingRequests) :
                                              http.pendingRequests[i] = q
                               THEN "sent" ELSE @[q]],
                   !.pendingRequests = <<>>,
                   !.isRefreshing = FALSE]
    /\ token' = TRUE
    /\ UNCHANGED session
    /\ HttpRan("RefreshSucceeds")

\* POST /auth/refresh rejected for request r: the catch and the finally.
RefreshFails(r) ==
    /\ http.req[r] = "refreshing"
    /\ http' = refreshFailed(http, r)
    /\ token' = FALSE
    /\ session' = [session EXCEPT !.nav = [to |-> "Login", by |-> "refresh"]]
    /\ HttpRan("RefreshFails")

\* The user logs in again: doLogin stores a token and a refresh token.
LoginStoresTokens ==
    /\ ~http.refreshToken
    /\ http' = [http EXCEPT !.refreshToken = TRUE]
    /\ token' = TRUE
    /\ UNCHANGED session
    /\ HttpRan("LoginStoresTokens")

HttpNext ==
    \/ \E r \in ReqIds : Request(r)
    \/ \E r \in ReqIds : Respond2xx(r)
    \/ \E r \in ReqIds : RespondError(r)
    \/ \E r \in ReqIds : Respond401(r)
    \/ \E r \in ReqIds : RefreshSucceeds(r)
    \/ \E r \in ReqIds : RefreshFails(r)
    \/ LoginStoresTokens

HttpSpec == SessionInit /\ [][HttpNext]_vars

\* ------------------------------------------------------ useCachedQuery

\* The smallest fetcher call not in flight.
NewFetch(c) == CHOOSE r \in FetchIds \ c.inflight : \A q \in FetchIds \ c.inflight : r <= q

\* fetchFromNetwork(): the pending promise of the entry when it has one;
\* otherwise the fetcher is called and its promise stored in the entry, which
\* keeps the data and the timestamp it had (null and 0 when there was none).
fetchFromNetwork(c) ==
    IF c.entry.promise # 0 THEN c
    ELSE [c EXCEPT !.entry = [data |-> IF c.entry = NoEntry THEN "null" ELSE c.entry.data,
                              age |-> IF c.entry = NoEntry THEN "expired" ELSE c.entry.age,
                              promise |-> NewFetch(c)],
                   !.inflight = @ \cup {NewFetch(c)}]

\* fetch(force): a valid entry is returned as it is, a stale one is returned
\* and refreshed in the background, anything else goes to the network.
fetch(c, force) ==
    IF ~force /\ c.entry.age = "valid" THEN [c EXCEPT !.data = c.entry.data]
    ELSE IF ~force /\ c.entry.age = "stale"
    THEN fetchFromNetwork([c EXCEPT !.data = c.entry.data])
    ELSE fetchFromNetwork(c)

\* invalidate(): cache.delete(key).
invalidate(c) == [c EXCEPT !.entry = NoEntry]

\* setData(newData): the entry is replaced by one without a promise.
setData(c, newData) ==
    [c EXCEPT !.data = newData,
              !.entry = [data |-> newData, age |-> "valid", promise |-> 0]]

\* A step of useCachedQuery named name.
CacheRan(name) ==
    /\ op' = name
    /\ pre' = Snapshot(Cur)
    /\ redelivered' = FALSE
    /\ UNCHANGED <<rs, socket, connected, connecting, reconnectAttempts, error,
                   heartbeatTimer, reconnectTimer, intervals, timeouts, notified,
                   token, visible, tasks, scenes, lastMessage, delays, closeRun,
                   notifiedRun, terminalSeen, bypassed, sendResult, fetchPc, call,
                   session, http>>

\* The fetcher can be called: a call is reused or one more may start.
CanFetch(c) == c.entry.promise # 0 \/ c.inflight # FetchIds

Fetch ==
    /\ CanFetch(cache)
    /\ cache' = fetch(cache, FALSE)
    /\ CacheRan("Fetch")

Refresh ==
    /\ CanFetch(cache)
    /\ cache' = fetch(cache, TRUE)
    /\ CacheRan("Refresh")

Invalidate ==
    /\ cache' = invalidate(cache)
    /\ CacheRan("Invalidate")

SetData ==
    /\ cache' = setData(cache, "optimistic")
    /\ CacheRan("SetData")

\* The fetcher call r resolved: the entry is replaced by the result, fresh.
FetcherResolves(r) ==
    /\ r \in cache.inflight
    /\ cache' = [cache EXCEPT !.entry = [data |-> "fetched", age |-> "valid", promise |-> 0],
                              !.data = "fetched",
                              !.inflight = @ \ {r}]
    /\ CacheRan("FetcherResolves")

\* The fetcher call r rejected: cache.delete(key).
FetcherRejects(r) ==
    /\ r \in cache.inflight
    /\ cache' = [cache EXCEPT !.entry = NoEntry, !.inflight = @ \ {r}]
    /\ CacheRan("FetcherRejects")

\* Time passes: a valid entry becomes stale, a stale one expires.
TimePasses ==
    /\ cache.entry.age \in {"valid", "stale"}
    /\ cache' = [cache EXCEPT !.entry.age = IF @ = "valid" THEN "stale" ELSE "expired"]
    /\ CacheRan("TimePasses")

\* The module's cache is empty; a consumer with immediate fetches at once.
CacheInit ==
    /\ rs = [i \in SockIds |-> "none"]
    /\ socket = NoSocket
    /\ connected = FALSE
    /\ connecting = FALSE
    /\ reconnectAttempts = 0
    /\ error = "null"
    /\ heartbeatTimer = NoTimer
    /\ reconnectTimer = NoTimer
    /\ intervals = {}
    /\ timeouts = {}
    /\ notified = 0
    /\ token = TRUE
    /\ visible = TRUE
    /\ tasks = <<>>
    /\ scenes = <<>>
    /\ lastMessage = <<>>
    /\ op = "init"
    /\ delays = <<>>
    /\ closeRun = 0
    /\ notifiedRun = 0
    /\ terminalSeen = {}
    /\ redelivered = FALSE
    /\ bypassed = {}
    /\ sendResult = NoSend
    /\ fetchPc = "idle"
    /\ call = NoCall
    /\ session = EditorSession
    /\ http = IdleHttp
    /\ cache \in {EmptyCache, fetch(EmptyCache, FALSE)}
    /\ pre = Snapshot(Cur)

CacheNext ==
    \/ Fetch
    \/ Refresh
    \/ Invalidate
    \/ SetData
    \/ \E r \in FetchIds : FetcherResolves(r)
    \/ \E r \in FetchIds : FetcherRejects(r)
    \/ TimePasses

CacheSpec == CacheInit /\ [][CacheNext]_vars

StoreNext == \E s \in SockIds, raw \in RawMsgs : OnMessage(s, raw)

StoreSpec == StoreInit /\ [][StoreNext]_vars

TypeOK ==
    /\ rs \in [SockIds -> ReadyStates]
    /\ socket \in SockIds \cup {NoSocket, ClosedSocket}
    /\ reconnectAttempts \in Nat
    /\ timeouts \subseteq TimerIds
    /\ intervals \subseteq TimerIds

\* ----------------------------------------------------------------- claims

\* This step scheduled a reconnect (scheduleReconnect ran).
ScheduledNow == Len(delays') = Len(delays) + 1

\* C1: every close the client did not request through disconnect() - the
\* socket was connecting or open, not closing, when the transport closed it,
\* clean handshake or not - schedules a reconnect while attempts < maxAttempts.
C1_ServerCloseSchedulesReconnect ==
    [][\A s \in SockIds :
          (rs[s] \in {"connecting", "open"} /\ rs'[s] = "none"
              /\ reconnectAttempts < MAX_RECONNECT_ATTEMPTS)
          => (ScheduledNow /\ timeouts' # {})]_vars

\* C2: the close report of a socket that disconnect() closed (it was closing)
\* never schedules a reconnect.
C2_ClientCloseSchedulesNothing ==
    [][\A s \in SockIds :
          (rs[s] = "closing" /\ rs'[s] = "none")
          => (~ScheduledNow /\ timeouts' \subseteq timeouts)]_vars

\* C3: when disconnect() has returned, no reconnect timer and no heartbeat
\* timer is alive in the runtime and both handles are null, so a reconnect
\* timer that was pending when disconnect() was called opens no socket.
C3_DisconnectClearsTimers ==
    op = "Disconnect"
        => /\ timeouts = {}
           /\ intervals = {}
           /\ reconnectTimer = NoTimer
           /\ heartbeatTimer = NoTimer

\* C3 witness: disconnect() ran while a reconnect timer was pending.
C3_Witness ==
    op = "Disconnect" /\ pre.timerPending /\ timeouts = {}

\* C4: at most one WebSocket of the instance is connecting or open at a time.
C4_AtMostOneSocket ==
    Cardinality({s \in SockIds : rs[s] \in {"connecting", "open"}}) <= 1

\* C5 as stated: right after maxAttempts abnormal closes in a row the client
\* is Failed (fatal error set, notification shown) and no open is scheduled.
C5_FailedAfterMaxAttemptsCloses ==
    (op = "SockCloseAbnormal" /\ closeRun = MAX_RECONNECT_ATTEMPTS)
        => (error = "fatal" /\ notified > 0 /\ timeouts = {})

\* C5 amended: counting the abnormal closes since reconnectAttempts was last
\* reset (open event, disconnect(), visibility regain), the abnormal close that
\* is number maxAttempts + 1 (or a later one) sets the fatal error, shows the notification and schedules no
\* reconnect; the one that is number maxAttempts schedules the last retry,
\* with a delay of 16000 ms, and does not set the fatal error.
C5_FailedAfterMaxAttemptsPlusOne ==
    [][/\ (op' = "SockCloseAbnormal" /\ closeRun' = MAX_RECONNECT_ATTEMPTS + 1)
           => /\ error' = "fatal"
              /\ notified' = notified + 1
              /\ ~ScheduledNow
              /\ timeouts' = timeouts
       /\ (op' = "SockCloseAbnormal" /\ closeRun' = MAX_RECONNECT_ATTEMPTS)
           => /\ ScheduledNow
              /\ timeouts' # {}
              /\ delays'[MAX_RECONNECT_ATTEMPTS] = 16000
              /\ error' # "fatal"
              /\ notified' = notified]_vars

\* C5 witness: the sixth abnormal close in a row has left the client Failed.
C5_Witness ==
    /\ op = "SockCloseAbnormal"
    /\ closeRun = MAX_RECONNECT_ATTEMPTS + 1
    /\ error = "fatal"
    /\ notified = 1
    /\ timeouts = {}

\* The delays of the scenario of the spec's section 8.
BackoffSchedule == <<1000, 2000, 4000, 8000, 16000>>

\* C6: counted from attempts = 0, the retries are scheduled with the delays
\* 1000, 2000, 4000, 8000, 16000 ms in this order, never a sixth, and the
\* abnormal close after the fifth leaves the client Failed.
C6_BackoffSequence ==
    /\ Len(delays) <= Len(BackoffSchedule)
    /\ delays = SubSeq(BackoffSchedule, 1, Len(delays))
    /\ (op = "SockCloseAbnormal" /\ closeRun = MAX_RECONNECT_ATTEMPTS + 1)
           => (delays = BackoffSchedule /\ error = "fatal")

\* C6 witness: the first connection and five retries closed abnormally.
C6_Witness ==
    /\ op = "SockCloseAbnormal"
    /\ closeRun = MAX_RECONNECT_ATTEMPTS + 1
    /\ delays = BackoffSchedule
    /\ error = "fatal"

\* C7: reconnectAttempts stays within 0..maxAttempts, and while it is
\* maxAttempts no step schedules a reconnect or starts a timer.
C7_AttemptsBounded ==
    /\ [](reconnectAttempts \in 0..MAX_RECONNECT_ATTEMPTS)
    /\ [][reconnectAttempts = MAX_RECONNECT_ATTEMPTS
             => (~ScheduledNow /\ timeouts' \subseteq timeouts)]_vars

\* C7 witness: a close arrived with attempts at maxAttempts and left it there.
C7_Witness ==
    /\ op \in {"SockCloseAbnormal", "SockCloseClean"}
    /\ pre.attempts = MAX_RECONNECT_ATTEMPTS
    /\ reconnectAttempts = MAX_RECONNECT_ATTEMPTS

\* C8: an open event sets reconnectAttempts to 0, and an abnormal close that
\* finds it 0 schedules the retry at 1000 ms as attempt 1 of maxAttempts.
C8_OpenResetsAttempts ==
    [][/\ op' = "SockOpen" => (reconnectAttempts' = 0 /\ delays' = <<>>)
       /\ (reconnectAttempts = 0 /\ op' = "SockCloseAbnormal")
           => (delays' = <<BASE_RECONNECT_DELAY>> /\ reconnectAttempts' = 1)]_vars

\* C8 witness: a socket opened after failed attempts.
C8_Witness ==
    op = "SockOpen" /\ pre.attempts > 0 /\ reconnectAttempts = 0

\* C9: once a terminal event was dispatched for a task id, dispatching a
\* pending, queued or running event for it leaves the recorded status as it was.
C9_TerminalStatusKept ==
    [][\A i \in 1..Len(tasks) :
          (/\ op' = "OnMessage"
           /\ Get(tasks[i], "id") \in terminalSeen
           /\ Get(tasks[i], "status") \in TerminalStatuses
           /\ lastMessage' # <<>>
           /\ Get(lastMessage'[1], "task_id") = Get(tasks[i], "id")
           /\ Get(lastMessage'[1], "status") \in NonTerminalStatuses)
          => Get(tasks'[i], "status") = Get(tasks[i], "status")]_vars

\* C10: in every store state and for every message, dispatching the message
\* twice leaves tasks, scenes and lastMessage as dispatching it once does.
C10_DispatchIdempotent ==
    \A raw \in RawMsgs :
        LET once == onmessage(Cur, raw)
            twice == onmessage(once, raw)
        IN  /\ twice.tasks = once.tasks
            /\ twice.scenes = once.scenes
            /\ twice.lastMessage = once.lastMessage

\* C10 witness: an event for a task id the store did not hold was dispatched
\* twice in a row, and the store holds the one task the dispatcher inserted.
C10_Witness ==
    /\ redelivered
    /\ Len(tasks) = 1
    /\ "project_id" \notin DOMAIN tasks[1]
    /\ lastMessage[1] \in Events
    /\ tasks[1].id = lastMessage[1].task_id

\* The order pending < queued < running < {completed, failed}.
StatusRank(status) ==
    CASE status = "pending" -> 0
      [] status = "queued" -> 1
      [] status = "running" -> 2
      [] OTHER -> 3

\* C11: dispatching an event whose status or progress is older than what is
\* recorded for its task id moves neither the recorded status nor the
\* recorded progress back.
C11_NoRegression ==
    [][\A i \in 1..Len(tasks) :
          (/\ op' = "OnMessage"
           /\ lastMessage' # <<>>
           /\ lastMessage'[1] \in Events
           /\ lastMessage'[1].task_id = Get(tasks[i], "id")
           /\ (\/ StatusRank(lastMessage'[1].status) < StatusRank(tasks[i].status)
               \/ lastMessage'[1].progress < tasks[i].progress))
          => /\ StatusRank(tasks'[i].status) >= StatusRank(tasks[i].status)
             /\ tasks'[i].progress >= tasks[i].progress]_vars

\* C16: a message that is no progress event is dropped: when a message event
\* changes tasks, scenes or lastMessage, what was dispatched is a progress
\* event.
C16_NonEventsDropped ==
    [][(op' = "OnMessage"
          /\ (tasks' # tasks \/ scenes' # scenes \/ lastMessage' # lastMessage))
       => (lastMessage' # <<>> /\ lastMessage'[1] \in Events)]_vars

\* The scene the store holds under id sid, 0 for none.
SceneIndex(sid) == FindIndex(scenes, sid)

\* Scene b is scene a but for the fields named in changed.
SameBut(a, b, changed) ==
    /\ DOMAIN b = DOMAIN a \cup changed
    /\ \A k \in DOMAIN a \ changed : b[k] = a[k]

\* C19: after a completed event with a result for a scene the store holds,
\* that scene has the result's image_url (image task) or video_url (video
\* task) and status completed, its other fields are as before and so is
\* every other scene.
C19_ResultRoutedToScene ==
    [][(/\ op' = "OnMessage"
        /\ lastMessage' # <<>>
        /\ lastMessage'[1] \in Events
        /\ lastMessage'[1].status = "completed"
        /\ HasResult(lastMessage'[1])
        /\ SceneIndex(ResultSceneId(lastMessage'[1])) # 0)
       => LET e == lastMessage'[1]
              ix == SceneIndex(ResultSceneId(e))
              field == IF e.type = "image" THEN "image_url" ELSE "video_url"
          IN  /\ Len(scenes') = Len(scenes)
              /\ scenes'[ix][field] = Get(e.result, field)
              /\ scenes'[ix].status = "completed"
              /\ SameBut(scenes[ix], scenes'[ix], {field, "status"})
              /\ \A j \in 1..Len(scenes) : j # ix => scenes'[j] = scenes[j]]_vars

\* C19 witness: a completed image event carried image_url x for scene s1.
C19_Witness ==
    /\ op = "OnMessage"
    /\ lastMessage # <<>>
    /\ lastMessage[1] \in Events
    /\ lastMessage[1].status = "completed"
    /\ lastMessage[1].type = "image"
    /\ ResultSceneId(lastMessage[1]) = "s1"
    /\ Len(scenes) = 2
    /\ scenes[1] = [RestScene("s1") EXCEPT !.image_url = "x", !.status = "completed"]
    /\ scenes[2] = RestScene("s2")

\* C20: a completed or failed event naming a scene the store does not hold
\* leaves the scene list as it is and still records the event's status and
\* progress in the task of its task id.
C20_UnknownSceneIgnored ==
    [][(/\ op' = "OnMessage"
        /\ lastMessage' # <<>>
        /\ lastMessage'[1] \in Events
        /\ lastMessage'[1].status \in TerminalStatuses
        /\ Truthy(ResultSceneId(lastMessage'[1]))
        /\ SceneIndex(ResultSceneId(lastMessage'[1])) = 0)
       => LET e == lastMessage'[1]
              ix == FindIndex(tasks', e.task_id)
          IN  /\ scenes' = scenes
              /\ ix # 0
              /\ tasks'[ix].status = e.status
              /\ tasks'[ix].progress = e.progress
              /\ tasks'[ix].error_message = Get(e, "error")]_vars

\* C20 witness: a completed event named scene s9, which the store does not
\* hold; the scenes are as fetched and the task is recorded completed.
C20_Witness ==
    /\ op = "OnMessage"
    /\ lastMessage # <<>>
    /\ lastMessage[1] \in Events
    /\ ResultSceneId(lastMessage[1]) = "s9"
    /\ scenes = <<RestScene("s1"), RestScene("s2")>>
    /\ \E i \in 1..Len(tasks) :
           tasks[i].id = lastMessage[1].task_id /\ tasks[i].status = "completed"

\* min(1000 * 2^n, 30000), 2^5 * 1000 being the first product above the cap.
ExpectedDelay(n) == IF n >= 5 THEN 30000 ELSE Min(1000 * 2^n, 30000)

DelayAt(n) == getReconnectDelay([Cur EXCEPT !.reconnectAttempts = n])

\* C12: for every attempt count n the delay is min(1000 * 2^n, 30000); it
\* does not decrease from n - 1 to n, stays at 30000 once there, and is 30000
\* where 2^n is no longer finite.
C12_DelayFormula ==
    op = "getReconnectDelay" =>
        LET n == reconnectAttempts
            d == delays[1]
        IN  /\ d = ExpectedDelay(n)
            /\ d \in BASE_RECONNECT_DELAY..MAX_RECONNECT_DELAY
            /\ n > 0 => DelayAt(n - 1) <= d
            /\ (n > 0 /\ DelayAt(n - 1) = MAX_RECONNECT_DELAY) => d = MAX_RECONNECT_DELAY
            /\ n > DoubleMaxExponent => d = MAX_RECONNECT_DELAY

\* C12 witness: the delay was computed at an attempt count whose power of two
\* is infinite, and it is the cap.
C12_Witness ==
    /\ op = "getReconnectDelay"
    /\ reconnectAttempts > DoubleMaxExponent
    /\ MathPow2(reconnectAttempts) = Infinity
    /\ delays = <<MAX_RECONNECT_DELAY>>

\* C13: connect() called while the client's current socket is connecting or
\* open creates no socket and leaves connected, connecting, reconnectAttempts
\* and the timers as they are.
C13_ConnectIdempotent ==
    [][(op' = "Connect" /\ socket \in SockIds /\ rs[socket] \in {"connecting", "open"})
       => /\ rs' = rs
          /\ socket' = socket
          /\ connected' = connected
          /\ connecting' = connecting
          /\ reconnectAttempts' = reconnectAttempts
          /\ heartbeatTimer' = heartbeatTimer
          /\ reconnectTimer' = reconnectTimer
          /\ intervals' = intervals
          /\ timeouts' = timeouts]_vars

\* connect() ran in this step: called directly, by the reconnect timer's
\* callback or by the visibility listener.
ConnectCalled ==
    \/ op' \in {"Connect", "ReconnectTimerFire"}
    \/ op' = "VisibilityChange" /\ visible' /\ ~connected /\ ~connecting

\* C14: with no token, connect() - however it is invoked - sets the error
\* state, creates no socket, changes neither connected nor connecting and
\* schedules no timer.
C14_NoTokenNoSocket ==
    [][(ConnectCalled /\ ~token)
       => /\ error' = "notLoggedIn"
          /\ rs' = rs
          /\ socket' = socket
          /\ connected' = connected
          /\ connecting' = connecting
          /\ timeouts' \subseteq timeouts
          /\ intervals' = intervals
          /\ ~ScheduledNow]_vars

\* C14 witness: the reconnect timer fired with no token; the error is set and
\* the closed socket has no successor.
C14_Witness ==
    /\ op = "ReconnectTimerFire"
    /\ ~token
    /\ error = "notLoggedIn"
    /\ socket = ClosedSocket
    /\ \A s \in SockIds : rs[s] = "none"
    /\ ~connecting

\* C15: send() returns true exactly when the current socket is open, and then
\* the payload went to that socket; otherwise nothing is handed over; in
\* either case the state of the client is as before.
C15_SendOnlyWhenOpen ==
    [][op' = "Send"
       => /\ sendResult'.returned = (socket \in SockIds /\ rs[socket] = "open")
          /\ sendResult'.returned => sendResult'.handedTo = socket
          /\ ~sendResult'.returned => sendResult'.handedTo = NoSocket
          /\ UNCHANGED <<rs, socket, connected, connecting, reconnectAttempts,
                         error, heartbeatTimer, reconnectTimer, intervals,
                         timeouts, notified, tasks, scenes, lastMessage>>]_vars

\* C15 witness: send() was called while the current socket was connecting and
\* returned false.
C15_Witness ==
    /\ op = "Send"
    /\ socket \in SockIds
    /\ rs[socket] = "connecting"
    /\ ~sendResult.returned
    /\ sendResult.handedTo = NoSocket

\* C17: a reconnect timer that was pending when a visibility regain
\* reconnected opens no socket when it fires later.
C17_BypassedTimerOpensNothing ==
    [][(op' = "ReconnectTimerFire" /\ (timeouts \ timeouts') \cap bypassed # {})
       => rs' = rs]_vars

\* C18: a heartbeat timer is alive exactly while the current socket is open,
\* and never more than one.
C18_HeartbeatIffOpen ==
    /\ Cardinality(intervals) <= 1
    /\ (intervals # {}) <=> SocketIsOpen(Cur)

\* C21: the fatal notification is emitted at most once between two resets of
\* reconnectAttempts to 0, and while the client is Failed the reconnect timer
\* constructs no socket.
C21_FatalNotifiedOnce ==
    [][/\ notified' > notified => notifiedRun = 0
       /\ (error = "fatal" /\ op' = "ReconnectTimerFire")
              => \A s \in SockIds : rs'[s] = "connecting" => rs[s] = "connecting"]_vars

\* C24: while the client is connected no reconnect timer is pending.
C24_ConnectedNoPendingTimer ==
    connected => timeouts = {}

\* An event of socket s was handled in this step and s was not the client's
\* current socket: s opened or closed.
StaleEvent(s) ==
    /\ op' \in {"SockOpen", "SockCloseAbnormal", "SockCloseClean"}
    /\ rs'[s] # rs[s]
    /\ socket # s

\* C26: an event of a socket that is not the client's current socket changes
\* neither connected nor connecting, starts and stops no heartbeat, schedules
\* no reconnect and writes nothing to the store.
C26_StaleEventsIgnored ==
    [][\A s \in SockIds :
          StaleEvent(s)
          => /\ connected' = connected
             /\ connecting' = connecting
             /\ intervals' = intervals
             /\ heartbeatTimer' = heartbeatTimer
             /\ timeouts' = timeouts
             /\ ~ScheduledNow
             /\ tasks' = tasks
             /\ scenes' = scenes]_vars

\* C27: connected and connecting are never both true, and connected is true
\* only while the current socket is open.
C27_FlagsConsistent ==
    /\ ~(connected /\ connecting)
    /\ connected => SocketIsOpen(Cur)

\* An abnormal close has just been handled below the attempt ceiling, no
\* socket is alive and the token is there.
ClosedBelowCeiling ==
    /\ op = "SockCloseAbnormal"
    /\ pre.attempts < MAX_RECONNECT_ATTEMPTS
    /\ token
    /\ \A s \in SockIds : rs[s] = "none"

\* C25: after an abnormal close below the attempt ceiling a socket open is
\* attempted in the end, and the reconnect timer's connect() constructs a
\* socket whenever none is alive (the connecting flag does not swallow it).
C25_ReconnectEventuallyAttempted ==
    /\ ClosedBelowCeiling ~> (\E s \in SockIds : rs[s] = "connecting")
    /\ [][(op' = "ReconnectTimerFire" /\ \A s \in SockIds : rs[s] = "none")
          => \E s \in SockIds : rs'[s] = "connecting"]_vars

\* C25 witness: the reconnect timer fired after an abnormal close and its
\* connect() constructed the socket that is now connecting.
C25_Witness ==
    /\ op = "ReconnectTimerFire"
    /\ pre.attempts > 0
    /\ pre.timerPending
    /\ socket \in SockIds
    /\ rs[socket] = "connecting"
    /\ connecting
    /\ timeouts = {}

\* C22: when tasksApi.list resolves, every task the dispatcher has recorded
\* is still in the store, and one recorded with a terminal status still has
\* a terminal status.
C22_FetchKeepsDispatched ==
    [][op' = "ListResolves"
       => \A i \in 1..Len(tasks) :
             Get(tasks[i], "id") \in TaskIds
             => \E j \in 1..Len(tasks') :
                   /\ tasks'[j].id = tasks[i].id
                   /\ tasks[i].status \in TerminalStatuses
                         => tasks'[j].status \in TerminalStatuses]_vars

\* No two tasks of ts have the same id.
DistinctIds(ts) ==
    \A i, j \in 1..Len(ts) : i # j => Get(ts[i], "id") # Get(ts[j], "id")

IdKeptCall ==
    \/ call'.fn = "addTask"
    \/ /\ call'.fn = "updateTask"
       /\ \/ Get(call'.updates, "id") = call'.taskId
          \/ /\ "id" \notin DOMAIN call'.updates
             /\ FindIndex(tasks, call'.taskId) # 0

C23_LogoutLandsOnLogin ==
    [][(op' = "GuardRuns" /\ session.nav = [to |-> "Login", by |-> "logout"])
       => /\ ~session.storeToken
          /\ ~session.user
          /\ session'.route = "Login"
          /\ session'.nav = NoNav]_vars

\* C29: when a refresh ends, every request queued during it is settled or
\* under way again - re-sent when the refresh succeeded, rejected when it
\* failed - and the queue is empty, so nothing is carried into a later
\* refresh.
C29_QueuedRequestsSettled ==
    [][op' \in {"RefreshSucceeds", "RefreshFails"}
       => /\ http'.pendingRequests = <<>>
          /\ \A r \in ReqIds :
                http.req[r] = "queued"
                => http'.req[r] = IF op' = "RefreshSucceeds" THEN "sent" ELSE "rejected"]_vars

\* C30: at most one fetcher call of the key is in flight at a time.
C30_OneFetcherInFlight == Cardinality(cache.inflight) <= 1

====
